---- MODULE Spec2Model ----
(***************************************************************************)
(* Model of the HuebnerCobolt06mld laser driver (huebner_cobolt06mld.py).  *)
(*                                                                         *)
(* The driver is a thin layer over a VISA instrument: every method sends   *)
(* one ASCII command through instrument.write or instrument.query.  The    *)
(* model keeps the driver's fields, the list of calls the transport has    *)
(* received (log) and a record of the last completed call (last).          *)
(*                                                                         *)
(* Strings are sequences of one-character strings, so that formatting and  *)
(* parsing are computed digit by digit.                                    *)
(*                                                                         *)
(* Numbers.  A power is an integer count of 1/(1000*Sub) W and a current   *)
(* an integer count of 1/(100*Sub) of its unit: Sub sub-steps for each     *)
(* step of the last decimal the format keeps.  The "f" presentation type   *)
(* rounds the exact value to the nearest step, ties to even.               *)
(***************************************************************************)
EXTENDS Integers, Sequences, FiniteSets, TLC

\* ------------------------------------------------------------------ bounds
\* sub-steps per step of the last printed decimal
Sub == 4
\* transport calls recorded before the model stops issuing new ones
MaxLog == 2
\* largest small power / current argument, in printed steps
SmallSteps == 2

\* --------------------------------------------------------------- constants
\* decimals of f"{power:.3f}"
PowerDecimals == 3
\* decimals of f"{current:.2f}"
CurrentDecimals == 2

None == "None"

VARIABLES pc, name, address, wavelength, max_power, max_current, instrument,
          log, last

fields == <<name, address, wavelength, max_power, max_current, instrument>>
vars == <<pc, name, address, wavelength, max_power, max_current, instrument,
          log, last>>

\* ----------------------------------------------------------------- strings
DigitChars == <<"0", "1", "2", "3", "4", "5", "6", "7", "8", "9">>

IsDigit(c) == \E i \in 1..10 : DigitChars[i] = c

DigitVal(c) == (CHOOSE i \in 1..10 : DigitChars[i] = c) - 1

RECURSIVE Pow10(_)
Pow10(d) == IF d = 0 THEN 1 ELSE 10 * Pow10(d - 1)

\* decimal digits of a natural number, no leading zeros ("0" for 0)
RECURSIVE NatStr(_)
NatStr(n) == IF n < 10 THEN <<DigitChars[n + 1]>>
             ELSE NatStr(n \div 10) \o <<DigitChars[(n % 10) + 1]>>

\* str(n) of a Python int, as an f-string replacement field renders it
IntStr(n) == IF n < 0 THEN <<"-">> \o NatStr(-n) ELSE NatStr(n)

\* exactly d digits of n, zero padded on the left
RECURSIVE PadDigits(_, _)
PadDigits(n, d) == IF d = 0 THEN <<>>
                   ELSE PadDigits(n \div 10, d - 1) \o <<DigitChars[(n % 10) + 1]>>

\* variant: the digits beyond the last decimal are cut off, not rounded
RoundDown(n) == n \div Sub

\* nearest integer to n/Sub for n >= 0, ties to even
RoundHalfEven(n) ==
    LET q == n \div Sub
        r == n % Sub
    IN  IF 2 * r < Sub THEN q
        ELSE IF 2 * r > Sub THEN q + 1
        ELSE IF q % 2 = 0 THEN q ELSE q + 1

\* f"{v:.<d>f}" for the value v = n sub-steps of 10^-d
FormatFixed(n, d) ==
    LET m == RoundHalfEven(IF n < 0 THEN -n ELSE n)
        body == NatStr(m \div Pow10(d)) \o <<".">> \o PadDigits(m % Pow10(d), d)
    IN  IF n < 0 THEN <<"-">> \o body ELSE body

\* ------------------------------------------------------------ Python parse
RECURSIVE LStrip(_)
LStrip(s) == IF s # <<>> /\ Head(s) = " " THEN LStrip(Tail(s)) ELSE s

RECURSIVE RStrip(_)
RStrip(s) == IF s # <<>> /\ s[Len(s)] = " " THEN RStrip(SubSeq(s, 1, Len(s) - 1)) ELSE s

Strip(s) == RStrip(LStrip(s))

AllDigits(s) == \A i \in 1..Len(s) : IsDigit(s[i])

RECURSIVE DigitsVal(_)
DigitsVal(s) == IF s = <<>> THEN 0
                ELSE 10 * DigitsVal(SubSeq(s, 1, Len(s) - 1)) + DigitVal(s[Len(s)])

HasSign(s) == s # <<>> /\ Head(s) \in {"+", "-"}

Unsigned(s) == IF HasSign(s) THEN Tail(s) ELSE s

SignOf(s) == IF s # <<>> /\ Head(s) = "-" THEN -1 ELSE 1

\* int(s): surrounding blanks, an optional sign, one or more digits
IntParse(s) ==
    LET t == Strip(s)
        u == Unsigned(t)
    IN  IF u # <<>> /\ AllDigits(u)
        THEN [ok |-> TRUE, val |-> SignOf(t) * DigitsVal(u)]
        ELSE [ok |-> FALSE, val |-> None]

DotAt(s) == IF \E i \in 1..Len(s) : s[i] = "."
            THEN CHOOSE i \in 1..Len(s) : s[i] = "." /\ \A j \in 1..(i - 1) : s[j] # "."
            ELSE 0

\* float(s) for plain decimal literals: blanks, optional sign, digits with
\* an optional point.  The value is the exact fraction num/den.
FloatParse(s) ==
    LET t == Strip(s)
        u == Unsigned(t)
        k == DotAt(u)
        ip == IF k = 0 THEN u ELSE SubSeq(u, 1, k - 1)
        fp == IF k = 0 THEN <<>> ELSE SubSeq(u, k + 1, Len(u))
    IN  IF AllDigits(ip) /\ AllDigits(fp) /\ Len(ip) + Len(fp) > 0
        THEN [ok |-> TRUE,
              val |-> [num |-> SignOf(t) * (DigitsVal(ip) * Pow10(Len(fp)) + DigitsVal(fp)),
                       den |-> Pow10(Len(fp))]]
        ELSE [ok |-> FALSE, val |-> None]

Coerce(type, s) == IF type = "int" THEN IntParse(s)
                   ELSE IF type = "float" THEN FloatParse(s)
                   ELSE [ok |-> TRUE, val |-> s]

\* --------------------------------------------------------------- transport
Write(cmd) == [kind |-> "write", cmd |-> cmd]
Query(cmd) == [kind |-> "query", cmd |-> cmd]

\* what the device may answer to a query
ReplySet == { <<"0">>, <<"1">>, <<" ", "-", "1", "2">>,
              <<"0", ".", "0", "3", "0">>, <<"O", "K">> }

\* ------------------------------------------------------------------ inputs
Names == {"laser"}
Addresses == {"ASRL3"}
Wavelengths == {514}
\* <<max_power, max_current>>: 0.08 and 250 as in __main__, small limits on
\* the printed grid, and small limits between two printed steps
Calibrations == { <<80 * Sub, 25000 * Sub>>, <<Sub, Sub>>,
                  <<Sub + Sub - 1, Sub + Sub - 1>> }
FlagArgs == -1..2
PowerArgs == (-1..(SmallSteps * Sub)) \cup {30 * Sub, 80 * Sub, 80 * Sub + 1}
CurrentArgs == (-1..(SmallSteps * Sub)) \cup {12500 * Sub, 25000 * Sub, 25000 * Sub + 1}

\* ------------------------------------------------------------------- calls
\* reply is <<>> when the call received no reply and <<r>> when it received r
Returned(op, arg, reply, ret) ==
    [op |-> op, arg |-> arg, reply |-> reply, exc |-> "none", ret |-> ret]

Raised(op, arg, reply, exc) ==
    [op |-> op, arg |-> arg, reply |-> reply, exc |-> exc, ret |-> None]

Init ==
    /\ pc = "init"
    /\ name = None /\ address = None /\ wavelength = None
    /\ max_power = None /\ max_current = None /\ instrument = None
    /\ log = <<>>
    /\ last = Returned(None, None, <<>>, None)

\* variant: a failed open is swallowed and the object is handed out
ConstructSwallowing ==
    /\ pc = "init"
    /\ \E n \in Names, a \in Addresses, cal \in Calibrations,
          wl \in Wavelengths, opened \in BOOLEAN :
         /\ name' = n /\ address' = a /\ wavelength' = wl
         /\ max_power' = cal[1] /\ max_current' = cal[2]
         /\ instrument' = IF opened THEN "open" ELSE None
         /\ pc' = "ready"
         /\ last' = IF opened THEN Returned("__init__", a, <<>>, None)
                     ELSE Raised("__init__", a, <<>>, "VisaIOError")
    /\ UNCHANGED log

\* __init__: the fields are assigned, then the resource is opened
Construct ==
    /\ pc = "init"
    /\ \E n \in Names, a \in Addresses, cal \in Calibrations,
          wl \in Wavelengths, opened \in BOOLEAN :
         /\ name' = n /\ address' = a /\ wavelength' = wl
         /\ max_power' = cal[1] /\ max_current' = cal[2]
         /\ IF opened
            THEN /\ instrument' = "open"
                 /\ pc' = "ready"
                 /\ last' = Returned("__init__", a, <<>>, None)
            ELSE /\ instrument' = None
                 /\ pc' = "failed"
                 /\ last' = Raised("__init__", a, <<>>, "VisaIOError")
    /\ UNCHANGED log

\* variant: a reply that does not parse is swallowed and None is returned
GetterSwallowing(op, cmd, type) ==
    /\ pc = "ready" /\ Len(log) < MaxLog
    /\ log' = Append(log, Query(cmd))
    /\ \E io \in BOOLEAN, reply \in ReplySet :
         last' = IF ~io THEN Raised(op, None, <<>>, "VisaIOError")
                 ELSE LET p == Coerce(type, reply)
                      IN  Returned(op, None, <<reply>>, p.val)
    /\ UNCHANGED <<pc, fields>>

\* return <coerce>(self.instrument.query(cmd))
Getter(op, cmd, type) ==
    /\ pc = "ready" /\ Len(log) < MaxLog
    /\ log' = Append(log, Query(cmd))
    /\ \E io \in BOOLEAN, reply \in ReplySet :
         last' = IF ~io THEN Raised(op, None, <<>>, "VisaIOError")
                 ELSE LET p == Coerce(type, reply)
                      IN  IF p.ok THEN Returned(op, None, <<reply>>, p.val)
                          ELSE Raised(op, None, <<reply>>, "ValueError")
    /\ UNCHANGED <<pc, fields>>

\* self.instrument.write(cmd)
Send(op, arg, cmd) ==
    /\ pc = "ready" /\ Len(log) < MaxLog
    /\ log' = Append(log, Write(cmd))
    /\ \E io \in BOOLEAN :
         last' = IF io THEN Returned(op, arg, <<>>, None)
                 ELSE Raised(op, arg, <<>>, "VisaIOError")
    /\ UNCHANGED <<pc, fields>>

\* the guard of a setter is false: the method falls through and returns None
Skip(op, arg) ==
    /\ pc = "ready"
    /\ last' = Returned(op, arg, <<>>, None)
    /\ UNCHANGED <<pc, fields, log>>

\* variant: the driver answers from the last status it wrote, when there is one
get_status_cached ==
    /\ pc = "ready" /\ Len(log) < MaxLog
    /\ LET written == {i \in 1..Len(log) : log[i] \in {Write(<<"l", "0">>), Write(<<"l", "1">>)}}
       IN  IF written = {}
           THEN Getter("get_status", <<"l", "?">>, "int")
           ELSE LET k == CHOOSE i \in written : \A j \in written : j <= i
                IN  /\ last' = Returned("get_status", None, <<>>, DigitVal(log[k].cmd[2]))
                    /\ UNCHANGED <<pc, fields, log>>

get_status == Getter("get_status", <<"l", "?">>, "int")

set_status ==
    \E status \in FlagArgs :
        IF status = 1 \/ status = 0
        THEN Send("set_status", status, <<"l">> \o IntStr(status))
        ELSE Skip("set_status", status)

get_analog_modulation_state ==
    Getter("get_analog_modulation_state", <<"g", "a", "m", "e", "s", "?">>, "int")

set_analog_modulation_state ==
    \E analog_modulation_state \in FlagArgs :
        IF analog_modulation_state = 1 \/ analog_modulation_state = 0
        THEN Send("set_analog_modulation_state", analog_modulation_state,
                  <<"s", "a", "m", "e", "s", " ">> \o IntStr(analog_modulation_state))
        ELSE Skip("set_analog_modulation_state", analog_modulation_state)

get_digital_modulation_state ==
    Getter("get_digital_modulation_state", <<"g", "d", "m", "e", "s", "?">>, "int")

\* variant: the digital setter has a command of its own
set_digital_modulation_state_sdmes ==
    \E digital_modulation_state \in FlagArgs :
        IF digital_modulation_state = 1 \/ digital_modulation_state = 0
        THEN Send("set_digital_modulation_state", digital_modulation_state,
                  <<"s", "d", "m", "e", "s", " ">> \o IntStr(digital_modulation_state))
        ELSE Skip("set_digital_modulation_state", digital_modulation_state)

set_digital_modulation_state ==
    \E digital_modulation_state \in FlagArgs :
        IF digital_modulation_state = 1 \/ digital_modulation_state = 0
        THEN Send("set_digital_modulation_state", digital_modulation_state,
                  <<"s", "a", "m", "e", "s", " ">> \o IntStr(digital_modulation_state))
        ELSE Skip("set_digital_modulation_state", digital_modulation_state)

get_power == Getter("get_power", <<"p", "?">>, "float")

\* variant: an accepted power is also stored as the new limit
set_power_stores_limit ==
    /\ pc = "ready" /\ Len(log) < MaxLog
    /\ \E power \in PowerArgs, io \in BOOLEAN :
           /\ power >= 0 /\ power <= max_power
           /\ max_power' = power
           /\ log' = Append(log, Write(<<"p", " ">> \o FormatFixed(power, PowerDecimals)))
           /\ last' = IF io THEN Returned("set_power", power, <<>>, None)
                       ELSE Raised("set_power", power, <<>>, "VisaIOError")
    /\ UNCHANGED <<pc, name, address, wavelength, max_current, instrument>>

set_power ==
    /\ pc = "ready"
    /\ \E power \in PowerArgs :
           IF power >= 0 /\ power <= max_power
           THEN Send("set_power", power, <<"p", " ">> \o FormatFixed(power, PowerDecimals))
           ELSE Skip("set_power", power)

get_current == Getter("get_current", <<"g", "l", "c", "?">>, "float")

\* variant: the current is printed like the power, with three decimals
set_current_three_decimals ==
    /\ pc = "ready"
    /\ \E current \in CurrentArgs :
           IF current >= 0 /\ current <= max_current
           THEN Send("set_current", current,
                     <<"s", "l", "c", " ">> \o FormatFixed(current, PowerDecimals))
           ELSE Skip("set_current", current)

\* variant: the upper limit is not checked
set_current_no_upper_check ==
    /\ pc = "ready"
    /\ \E current \in CurrentArgs :
           IF current >= 0
           THEN Send("set_current", current,
                     <<"s", "l", "c", " ">> \o FormatFixed(current, CurrentDecimals))
           ELSE Skip("set_current", current)

set_current ==
    /\ pc = "ready"
    /\ \E current \in CurrentArgs :
           IF current >= 0 /\ current <= max_current
           THEN Send("set_current", current,
                     <<"s", "l", "c", " ">> \o FormatFixed(current, CurrentDecimals))
           ELSE Skip("set_current", current)

get_operating_mode == Getter("get_operating_mode", <<"g", "o", "m", "?">>, "str")

get_interlock_state == Getter("get_interlock_state", <<"i", "l", "k", "?">>, "str")

get_operating_fault == Getter("get_operating_fault", <<"f", "?">>, "str")

get_serial_number == Getter("get_serial_number", <<"g", "s", "n", "?">>, "int")

get_laser_head_operating_hours ==
    Getter("get_laser_head_operating_hours", <<"h", "r", "s", "?">>, "float")

laser_on_force_autostart ==
    Send("laser_on_force_autostart", None, <<"@", "c", "o", "b", "1">>)

laser_off == Send("laser_off", None, <<"@", "c", "o", "b", "0">>)

enter_constant_power_mode == Send("enter_constant_power_mode", None, <<"c", "p">>)

enter_constant_current_mode == Send("enter_constant_current_mode", None, <<"c", "i">>)

enter_modulation_mode == Send("enter_modulation_mode", None, <<"e", "m">>)

read_actual_output_power == Getter("read_actual_output_power", <<"p", "a", "?">>, "float")

\* variant: the command carries the question mark of the other queries
read_actual_laser_current_qmark ==
    Getter("read_actual_laser_current", <<"r", "l", "c", "?">>, "float")

read_actual_laser_current == Getter("read_actual_laser_current", <<"r", "l", "c">>, "float")

clear_fault == Send("clear_fault", None, <<"c", "f">>)

\* any method call on a constructed driver
Operation ==
    \/ get_status \/ set_status
    \/ get_analog_modulation_state \/ set_analog_modulation_state
    \/ get_digital_modulation_state \/ set_digital_modulation_state
    \/ get_power \/ set_power
    \/ get_current \/ set_current
    \/ get_operating_mode \/ get_interlock_state \/ get_operating_fault
    \/ get_serial_number \/ get_laser_head_operating_hours
    \/ laser_on_force_autostart \/ laser_off
    \/ enter_constant_power_mode \/ enter_constant_current_mode
    \/ enter_modulation_mode
    \/ read_actual_output_power \/ read_actual_laser_current
    \/ clear_fault

Next == Construct \/ Operation

Spec == Init /\ [][Next]_vars

\* ================================================================== claims
HasPrefix(s, pre) == Len(s) >= Len(pre) /\ SubSeq(s, 1, Len(pre)) = pre

AfterPrefix(s, pre) == SubSeq(s, Len(pre) + 1, Len(s))

\* the step appended exactly the transport call e to the log
Appended(e) == log' = Append(log, e)

\* text is an unsigned decimal with exactly d digits after the point
IsFixed(text, d) ==
    /\ Len(text) >= d + 2
    /\ text[Len(text) - d] = "."
    /\ \A i \in 1..Len(text) : i # Len(text) - d => IsDigit(text[i])
    /\ (Len(text) > d + 2 => text[1] # "0")

\* the number of 10^-d steps an unsigned fixed-point text denotes
FixedSteps(text, d) ==
    DigitsVal(SubSeq(text, 1, Len(text) - d - 1)) * Pow10(d)
        + DigitsVal(SubSeq(text, Len(text) - d + 1, Len(text)))

\* text is the value of n sub-steps printed with d decimals: the nearest
\* step, and the even one when two steps are equally near
PrintsAs(text, n, d) ==
    /\ IsFixed(text, d)
    /\ LET m == FixedSteps(text, d)
           e == m * Sub - n
       IN  /\ 2 * e <= Sub /\ 2 * e >= -Sub
           /\ (2 * e = Sub \/ 2 * e = -Sub) => m % 2 = 0

PowerCmd == <<"p", " ">>
CurrentCmd == <<"s", "l", "c", " ">>

\* C1 (as claimed): every power carried by a "p ..." command the transport
\* received is within [0, max_power] and every current carried by an
\* "slc ..." command is within [0, max_current], taking the number printed
\* in the command.
C1_SentValuesWithinLimits ==
    \A i \in 1..Len(log) :
        /\ HasPrefix(log[i].cmd, PowerCmd) =>
              LET m == FixedSteps(AfterPrefix(log[i].cmd, PowerCmd), PowerDecimals)
              IN  0 <= m /\ m * Sub <= max_power
        /\ HasPrefix(log[i].cmd, CurrentCmd) =>
              LET m == FixedSteps(AfterPrefix(log[i].cmd, CurrentCmd), CurrentDecimals)
              IN  0 <= m /\ m * Sub <= max_current

SetterOps == {"set_status", "set_analog_modulation_state",
              "set_digital_modulation_state", "set_power", "set_current"}

FlagOps == {"set_status", "set_analog_modulation_state",
            "set_digital_modulation_state"}

\* the argument of a setter call is outside the range the setter accepts
OutOfRange(call) ==
    IF call.op \in FlagOps THEN call.arg \notin {0, 1}
    ELSE IF call.op = "set_power" THEN call.arg < 0 \/ call.arg > max_power
    ELSE IF call.op = "set_current" THEN call.arg < 0 \/ call.arg > max_current
    ELSE FALSE

\* C2: a setter called with an out-of-range argument returns normally and
\* the transport receives neither a write nor a query.
C2_OutOfRangeSetterSendsNothing ==
    [][(last'.op \in SetterOps /\ OutOfRange(last'))
          => (log' = log /\ last'.exc = "none" /\ last'.ret = None)]_vars

C2_Witness ==
    /\ last.op = "set_current" /\ last.arg > max_current /\ last.exc = "none"
    /\ Len(log) = 1 /\ log[1].cmd = <<"l", "1">>

\* C3: set_power(v) with 0 <= v <= max_power sends exactly one write, "p "
\* followed by v printed with three decimals; 0.03 with max_power 0.08 gives
\* "p 0.030".
C3_SetPowerSendsThreeDecimals ==
    [][(last'.op = "set_power" /\ 0 <= last'.arg /\ last'.arg <= max_power)
          => /\ Len(log') = Len(log) + 1
             /\ SubSeq(log', 1, Len(log)) = log
             /\ LET sent == log'[Len(log')]
                IN  /\ sent.kind = "write"
                    /\ HasPrefix(sent.cmd, PowerCmd)
                    /\ PrintsAs(AfterPrefix(sent.cmd, PowerCmd), last'.arg, PowerDecimals)
                    /\ (last'.arg = 30 * Sub =>
                          sent.cmd = <<"p", " ", "0", ".", "0", "3", "0">>)]_vars

C3_Witness ==
    /\ last.op = "set_power" /\ last.arg = 30 * Sub /\ max_power = 80 * Sub
    /\ log = <<Write(<<"p", " ", "0", ".", "0", "3", "0">>)>>

\* C4: set_current(v) with 0 <= v <= max_current sends exactly one write,
\* "slc " followed by v printed with two decimals (125 gives "slc 125.00");
\* with v outside [0, max_current] it sends nothing.
C4_SetCurrentSendsTwoDecimals ==
    [][last'.op = "set_current"
          => IF 0 <= last'.arg /\ last'.arg <= max_current
             THEN /\ Len(log') = Len(log) + 1
                  /\ SubSeq(log', 1, Len(log)) = log
                  /\ LET sent == log'[Len(log')]
                     IN  /\ sent.kind = "write"
                         /\ HasPrefix(sent.cmd, CurrentCmd)
                         /\ PrintsAs(AfterPrefix(sent.cmd, CurrentCmd), last'.arg,
                                     CurrentDecimals)
                         /\ (last'.arg = 12500 * Sub =>
                               sent.cmd = <<"s", "l", "c", " ", "1", "2", "5", ".", "0", "0">>)
             ELSE log' = log]_vars

C4_Witness ==
    /\ last.op = "set_current" /\ last.arg = 12500 * Sub /\ max_current = 25000 * Sub
    /\ log = <<Write(<<"s", "l", "c", " ", "1", "2", "5", ".", "0", "0">>)>>

\* the command and the reply type of each getter, as the table lists them
GetterOps == {"get_status", "get_analog_modulation_state",
              "get_digital_modulation_state", "get_power", "get_current",
              "get_operating_mode", "get_interlock_state", "get_operating_fault",
              "get_serial_number", "get_laser_head_operating_hours",
              "read_actual_output_power", "read_actual_laser_current"}

GetterCmd(op) ==
    CASE op = "get_status" -> <<"l", "?">>
      [] op = "get_analog_modulation_state" -> <<"g", "a", "m", "e", "s", "?">>
      [] op = "get_digital_modulation_state" -> <<"g", "d", "m", "e", "s", "?">>
      [] op = "get_power" -> <<"p", "?">>
      [] op = "get_current" -> <<"g", "l", "c", "?">>
      [] op = "get_operating_mode" -> <<"g", "o", "m", "?">>
      [] op = "get_interlock_state" -> <<"i", "l", "k", "?">>
      [] op = "get_operating_fault" -> <<"f", "?">>
      [] op = "get_serial_number" -> <<"g", "s", "n", "?">>
      [] op = "get_laser_head_operating_hours" -> <<"h", "r", "s", "?">>
      [] op = "read_actual_output_power" -> <<"p", "a", "?">>
      [] op = "read_actual_laser_current" -> <<"r", "l", "c">>

GetterType(op) ==
    IF op \in {"get_status", "get_analog_modulation_state",
               "get_digital_modulation_state", "get_serial_number"} THEN "int"
    ELSE IF op \in {"get_operating_mode", "get_interlock_state",
                    "get_operating_fault"} THEN "str"
    ELSE "float"

\* the call returned its reply converted to the given type and nothing else
ReturnedAs(call, type) ==
    /\ call.reply # <<>>
    /\ LET r == call.reply[1]
       IN  /\ type = "int" => call.ret = IntParse(r).val
           /\ type = "float" => call.ret = FloatParse(r).val
           /\ type = "str" => call.ret = r
           /\ (type = "int" /\ r = <<" ", "-", "1", "2">>) => call.ret = -12
           /\ (type = "float" /\ r = <<"0", ".", "0", "3", "0">>) =>
                 call.ret = [num |-> 30, den |-> 1000]

\* C5: each getter issues exactly one query, with its fixed command, issues
\* no write, and returns the reply converted to the type of its table row.
C5_GetterQueriesOnceAndCoerces ==
    [][last'.op \in GetterOps
          => /\ Appended(Query(GetterCmd(last'.op)))
             /\ last'.exc = "none" => ReturnedAs(last', GetterType(last'.op))]_vars

C5_Witness ==
    /\ last.op = "read_actual_laser_current" /\ last.exc = "none"
    /\ last.ret = [num |-> 30, den |-> 1000]
    /\ log = <<Write(<<"c", "i">>), Query(<<"r", "l", "c">>)>>

\* C6: the driver keeps no copy of the device state: set_status(v) with v in
\* {0, 1} writes "l{v}", get_status sends a fresh "l?" and returns what the
\* device answers to it, whatever was written before, and neither call
\* touches a field of the driver.
C6_StatusIsNeverCached ==
    [][/\ (last'.op = "set_status" /\ last'.arg \in {0, 1})
             => /\ Appended(Write(<<"l", IF last'.arg = 0 THEN "0" ELSE "1">>))
                /\ fields' = fields
       /\ last'.op = "get_status"
             => /\ Appended(Query(<<"l", "?">>))
                /\ fields' = fields
                /\ last'.exc = "none"
                      => (last'.reply # <<>> /\ last'.ret = IntParse(last'.reply[1]).val)]_vars

C6_Witness ==
    /\ log = <<Write(<<"l", "1">>), Query(<<"l", "?">>)>>
    /\ last.op = "get_status" /\ last.exc = "none"
    /\ last.reply = <<<<"0">>>> /\ last.ret = 0

NumericGetterOps == {op \in GetterOps : GetterType(op) \in {"int", "float"}}

\* C7: a numeric getter whose reply does not parse as its type raises the
\* ValueError of the conversion; one query was sent, none is repeated, and
\* the fields of the driver are unchanged.
C7_UnparsableReplyRaises ==
    [][(/\ last'.op \in NumericGetterOps
        /\ last'.reply # <<>>
        /\ ~Coerce(GetterType(last'.op), last'.reply[1]).ok)
          => /\ last'.exc = "ValueError"
             /\ Appended(Query(GetterCmd(last'.op)))
             /\ fields' = fields /\ pc' = pc]_vars

C7_Witness ==
    /\ last.op = "get_serial_number" /\ last.exc = "ValueError"
    /\ last.reply = <<<<"0", ".", "0", "3", "0">>>>
    /\ log = <<Query(<<"g", "s", "n", "?">>)>>

\* C8: once the constructor has assigned them, max_power and max_current
\* keep their values through every operation.
C8_LimitsNeverChange ==
    [][pc # "init" => (max_power' = max_power /\ max_current' = max_current)]_vars

C8_Witness ==
    /\ pc = "ready" /\ max_power = Sub + Sub - 1 /\ max_current = Sub + Sub - 1
    /\ Len(log) = 2 /\ log[1].kind = "write" /\ HasPrefix(log[1].cmd, PowerCmd)
    /\ last.op = "set_current" /\ last.arg > max_current

\* C9: when the resource cannot be opened the constructor raises, no driver
\* is handed out (no operation can be invoked) and no command was sent.
C9_FailedOpenYieldsNoDriver ==
    (last.op = "__init__" /\ last.exc = "VisaIOError")
        => (pc = "failed" /\ instrument = None /\ log = <<>> /\ ~ENABLED Operation)

C9_Witness ==
    /\ pc = "failed" /\ last.op = "__init__" /\ last.exc = "VisaIOError"
    /\ address = "ASRL3" /\ max_power = 80 * Sub

\* C10: set_digital_modulation_state(v) with v in {0, 1} sends exactly one
\* write, "sames {v}", the command set_analog_modulation_state(v) sends; with
\* any other v it sends nothing.
C10_DigitalSetterSendsSames ==
    [][/\ last'.op = "set_digital_modulation_state"
             => IF last'.arg \in {0, 1}
                THEN Appended(Write(<<"s", "a", "m", "e", "s", " ",
                                      IF last'.arg = 0 THEN "0" ELSE "1">>))
                ELSE log' = log
       /\ (last'.op = "set_analog_modulation_state" /\ last'.arg \in {0, 1})
             => Appended(Write(<<"s", "a", "m", "e", "s", " ",
                                 IF last'.arg = 0 THEN "0" ELSE "1">>))]_vars

C10_Witness ==
    /\ last.op = "set_digital_modulation_state" /\ last.arg = 1
    /\ log = <<Write(<<"s", "a", "m", "e", "s", " ", "1">>),
               Write(<<"s", "a", "m", "e", "s", " ", "1">>)>>
====
